---- MODULE Spec2Model ----
(***************************************************************************)
(* rrr: a combinator algebra of signal transformers.                       *)
(*                                                                         *)
(* A transformer is a value; step(self, delta, input) consumes it and      *)
(* returns the successor value together with an output.  Transformer       *)
(* values are records tagged by "kind"; Step is the dynamic dispatch of    *)
(* SignalTrans::step.  Every step returns                                  *)
(*     next  - the successor transformer,                                  *)
(*     out   - the output,                                                 *)
(*     calls - the step calls made during this tick, in call order, each   *)
(*             with the position of the callee in the transformer tree.    *)
(***************************************************************************)
EXTENDS Integers, Sequences, FiniteSets, TLC

VARIABLES sf0, sf, out, calls, trace

vars == <<sf0, sf, out, calls, trace>>

(***************************************************************************)
(* Bounds of the model.                                                    *)
(***************************************************************************)
MaxSteps == 4
MaxDelta == 2
MaxDur == 3
Depth == 2
TaskIn == 3
TaskDelta == 1
SeqSteps == 4
AfterDur == 5
EdgeSteps == 5
MaxVal == 2
TotalSteps == 3
MaxArgs == 6

(***************************************************************************)
(* Event<T> and TaskOutput<B, C>.                                          *)
(***************************************************************************)
NoEvent == [tag |-> "NoEvent"]

Event(value) == [tag |-> "Event", val |-> value]

Running(b) == [tag |-> "Running", val |-> b]

Stopped(c) == [tag |-> "Stopped", end |-> c]

(* Option<T>, used by timeout for the end value. *)
None == [tag |-> "None"]

Some(v) == [tag |-> "Some", val |-> v]

(* An end value of a task: a Clone type chosen by the user. *)
EndV(n) == [tag |-> "End", code |-> n]

(* a step that panicked has no output: the division of a lifted / or of    *)
(* derivative by zero unwinds through every enclosing step                 *)
Panic == [tag |-> "Panic"]

(***************************************************************************)
(* Transformer values.                                                     *)
(***************************************************************************)
Identity == [kind |-> "Identity"]

Const(value) == [kind |-> "Const", value |-> value]

Lift(f) == [kind |-> "Lift", f |-> f]

Never == [kind |-> "Never"]

After_NotYet(time, value) ==
    [kind |-> "After", st |-> "NotYet", time |-> time, value |-> value]

After_Past == [kind |-> "After", st |-> "Past"]

Edge(last) == [kind |-> "Edge", last |-> last]

Hold(held) == [kind |-> "Hold", held |-> held]

Delay(held) == [kind |-> "Delay", held |-> held]

Accum(value, f) == [kind |-> "Accum", value |-> value, f |-> f]

Compose(left, right) == [kind |-> "Compose", left |-> left, right |-> right]

Split(first, second) == [kind |-> "Split", first |-> first, second |-> second]

(* the transformer was moved into a step that panicked: nothing is left *)
Unwound == [kind |-> "Unwound"]

BasicTask_Running(run, stop) ==
    [kind |-> "BasicTask", st |-> "Running", run |-> run, stop |-> stop]

BasicTask_Stopped(val) == [kind |-> "BasicTask", st |-> "Stopped", end |-> val]

AddStop_Running(task, stop) ==
    [kind |-> "AddStop", st |-> "Running", task |-> task, stop |-> stop]

AddStop_Stopped(val) == [kind |-> "AddStop", st |-> "Stopped", end |-> val]

SeqTask(first, second) ==
    [kind |-> "SeqTask", first |-> first, second |-> second]

(***************************************************************************)
(* Closures.  A closure is a record naming the function and its captured   *)
(* values; ApplyLift and ApplyAccum call it.                               *)
(***************************************************************************)
(* |i| if i == k { Event::new(e) } else { Event::NoEvent } *)
StopEq(k, e) == [fn |-> "StopEq", k |-> k, e |-> e]

(* the closure timeout() maps over the inner task's output *)
WrapSome == [fn |-> "WrapSome"]

(* the closure fold() hands to accum, capturing the user's f *)
FoldFn(f) == [fn |-> "Fold", f |-> f]

FoldMod == 5

(* user functions f(value, acc) given to fold *)
UserF(f, value, acc) ==
    CASE f = "Horner" -> (2 * acc + value) % FoldMod
      [] f = "Sum" -> (acc + value) % FoldMod
      [] f = "Newest" -> value

(* |a| (a.clone(), a), the closure of fanout *)
Dup == [fn |-> "Dup"]

(* map2(|x, y| x $op y), the closure of a lifted operator *)
Op(op) == [fn |-> "Op", op |-> op]

(* |dt, df| df / dt.into(), the closure of derivative *)
DivDt == [fn |-> "DivDt"]

(* |dt, x, sum| sum + x * dt.into(), the closure of integral *)
IntegralFn == [fn |-> "Integral"]

(* dt.into(): Time converted into the value domain by a From conversion,   *)
(* which keeps the number                                                  *)
Into(dt) == dt

Abs(x) == IF x < 0 THEN 0 - x ELSE x

(* x / y of a primitive integer truncates towards zero.  y = 0 has no     *)
(* quotient: LiftPanics marks the call and the tick unwinds, so the 0 is  *)
(* never an output.                                                        *)
Div(x, y) ==
    IF y = 0
    THEN 0
    ELSE IF (x < 0) = (y < 0)
         THEN Abs(x) \div Abs(y)
         ELSE 0 - (Abs(x) \div Abs(y))

(* mutant: the operands reach the operator in the other order *)
ApplyOp_Swapped(op, x, y) ==
    CASE op = "+" -> y + x
      [] op = "-" -> y - x
      [] op = "*" -> y * x
      [] op = "/" -> Div(y, x)

(* x $op y *)
ApplyOp(op, x, y) ==
    CASE op = "+" -> x + y
      [] op = "-" -> x - y
      [] op = "*" -> x * y
      [] op = "/" -> Div(x, y)

(* mutant: the lifted * was generated with / as its operator *)
LiftPanics_MulDivides(f, delta, a) ==
    CASE f.fn = "Op" -> f.op \in {"*", "/"} /\ a[2] = 0
      [] f.fn = "DivDt" -> Into(delta) = 0
      [] OTHER -> FALSE

(* the calls of a lifted closure that panic: an integer division by zero *)
LiftPanics(f, delta, a) ==
    CASE f.fn = "Op" -> f.op = "/" /\ a[2] = 0
      [] f.fn = "DivDt" -> Into(delta) = 0
      [] OTHER -> FALSE

ApplyLift(f, delta, a) ==
    CASE f.fn = "StopEq" -> IF a = f.k THEN Event(f.e) ELSE NoEvent
      [] f.fn = "WrapSome" ->
            IF a.tag = "Running" THEN Running(a.val) ELSE Stopped(Some(a.end))
      [] f.fn = "Dup" -> <<a, a>>
      [] f.fn = "Op" -> ApplyOp(f.op, a[1], a[2])
      [] f.fn = "DivDt" -> Div(a, Into(delta))

(* mutant: an absent event resets the accumulator to 0 *)
ApplyAccum_DropOnAbsent(f, delta, a, acc) ==
    CASE f.fn = "Fold" ->
            IF a.tag = "Event" THEN UserF(f.f, a.val, acc) ELSE 0

(* mutant: the integrator adds the sample without weighting it by dt *)
IntegralStep_NoDt(dt, x, sum) == sum + x

IntegralStep(dt, x, sum) == sum + x * Into(dt)

ApplyAccum(f, delta, a, acc) ==
    CASE f.fn = "Fold" ->
            IF a.tag = "Event" THEN UserF(f.f, a.val, acc) ELSE acc
      [] f.fn = "Integral" -> IntegralStep(delta, a, acc)

(***************************************************************************)
(* step                                                                    *)
(***************************************************************************)
Ret(s, p, delta, input, next, output, sub) ==
    [next |-> next,
     out |-> output,
     calls |-> <<[path |-> p, self |-> s, delta |-> delta, input |-> input,
                  out |-> output, next |-> next]>> \o sub]

RECURSIVE Step(_, _, _, _)

StepIdentity(s, delta, a, p) == Ret(s, p, delta, a, s, a, <<>>)

StepConst(s, delta, a, p) == Ret(s, p, delta, a, s, s.value, <<>>)

StepLift(s, delta, a, p) ==
    Ret(s, p, delta, a, s, ApplyLift(s.f, delta, a), <<>>)

(* mutant: the input comes back as an occurrence *)
StepNever_Fires(s, delta, a, p) == Ret(s, p, delta, a, s, Event(a), <<>>)

StepNever(s, delta, a, p) == Ret(s, p, delta, a, s, NoEvent, <<>>)

(* mutant: the timer fires only once the remaining time is below zero *)
StepAfter_Strict(s, delta, a, p) ==
    IF s.st = "NotYet"
    THEN LET remaining == s.time - delta
         IN  IF remaining < 0
             THEN Ret(s, p, delta, a, After_Past, Event(s.value), <<>>)
             ELSE Ret(s, p, delta, a, After_NotYet(remaining, s.value),
                      NoEvent, <<>>)
    ELSE Ret(s, p, delta, a, After_Past, NoEvent, <<>>)

(* mutant: a negative delta is clamped to zero *)
StepAfter_Clamped(s, delta, a, p) ==
    IF s.st = "NotYet"
    THEN LET remaining == s.time - (IF delta < 0 THEN 0 ELSE delta)
         IN  IF remaining < 0 \/ remaining = 0
             THEN Ret(s, p, delta, a, After_Past, Event(s.value), <<>>)
             ELSE Ret(s, p, delta, a, After_NotYet(remaining, s.value),
                      NoEvent, <<>>)
    ELSE Ret(s, p, delta, a, After_Past, NoEvent, <<>>)

StepAfter(s, delta, a, p) ==
    IF s.st = "NotYet"
    THEN LET remaining == s.time - delta
         IN  IF remaining < 0 \/ remaining = 0
             THEN Ret(s, p, delta, a, After_Past, Event(s.value), <<>>)
             ELSE Ret(s, p, delta, a, After_NotYet(remaining, s.value),
                      NoEvent, <<>>)
    ELSE Ret(s, p, delta, a, After_Past, NoEvent, <<>>)

(* mutant: an event on every change of the sample *)
StepEdge_AnyChange(s, delta, on, p) ==
    LET ev == IF s.last # on THEN Event(<<>>) ELSE NoEvent
    IN  Ret(s, p, delta, on, Edge(on), ev, <<>>)

StepEdge(s, delta, on, p) ==
    LET ev == IF ~s.last /\ on THEN Event(<<>>) ELSE NoEvent
    IN  Ret(s, p, delta, on, Edge(on), ev, <<>>)

(* mutant: a present event is stored but the old value is output *)
StepHold_Lag(s, delta, event, p) ==
    IF event.tag = "NoEvent"
    THEN Ret(s, p, delta, event, s, s.held, <<>>)
    ELSE Ret(s, p, delta, event, Hold(event.val), s.held, <<>>)

StepHold(s, delta, event, p) ==
    IF event.tag = "NoEvent"
    THEN Ret(s, p, delta, event, s, s.held, <<>>)
    ELSE Ret(s, p, delta, event, Hold(event.val), event.val, <<>>)

(* mutant: the current input is output, without the lag *)
StepDelay_NoLag(s, delta, value, p) ==
    Ret(s, p, delta, value, Delay(value), value, <<>>)

StepDelay(s, delta, value, p) ==
    Ret(s, p, delta, value, Delay(value), s.held, <<>>)

StepAccum(s, delta, a, p) ==
    LET value_next == ApplyAccum(s.f, delta, a, s.value)
    IN  Ret(s, p, delta, a, Accum(value_next, s.f), value_next, <<>>)

(* mutant: the successor of the right part is dropped *)
StepCompose_StaleRight(s, delta, a, p) ==
    LET t == Step(s.left, delta, a, p \o <<"left">>)
        u == Step(s.right, delta, t.out, p \o <<"right">>)
    IN  Ret(s, p, delta, a, Compose(t.next, s.right), u.out,
            t.calls \o u.calls)

(* mutant: the right part is stepped on the external input *)
StepCompose_RightOnInput(s, delta, a, p) ==
    LET t == Step(s.left, delta, a, p \o <<"left">>)
        u == Step(s.right, delta, a, p \o <<"right">>)
    IN  Ret(s, p, delta, a, Compose(t.next, u.next), u.out,
            t.calls \o u.calls)

StepCompose(s, delta, a, p) ==
    LET t == Step(s.left, delta, a, p \o <<"left">>)
        u == Step(s.right, delta, t.out, p \o <<"right">>)
    IN  Ret(s, p, delta, a, Compose(t.next, u.next), u.out,
            t.calls \o u.calls)

(* mutant: both legs are stepped on the first half of the input *)
StepSplit_SharedInput(s, delta, ab, p) ==
    LET first == Step(s.first, delta, ab[1], p \o <<"first">>)
        second == Step(s.second, delta, ab[1], p \o <<"second">>)
    IN  Ret(s, p, delta, ab, Split(first.next, second.next),
            <<first.out, second.out>>, first.calls \o second.calls)

StepSplit(s, delta, ab, p) ==
    LET first == Step(s.first, delta, ab[1], p \o <<"first">>)
        second == Step(s.second, delta, ab[2], p \o <<"second">>)
    IN  Ret(s, p, delta, ab, Split(first.next, second.next),
            <<first.out, second.out>>, first.calls \o second.calls)

(* mutant: run is stepped before stop is looked at *)
StepBasicTask_RunFirst(s, delta, input, p) ==
    IF s.st = "Running"
    THEN LET run == Step(s.run, delta, input, p \o <<"run">>)
             stop == Step(s.stop, delta, input, p \o <<"stop">>)
         IN  IF stop.out.tag = "Event"
             THEN Ret(s, p, delta, input, BasicTask_Stopped(stop.out.val),
                      Stopped(stop.out.val), run.calls \o stop.calls)
             ELSE Ret(s, p, delta, input,
                      BasicTask_Running(run.next, stop.next),
                      Running(run.out), run.calls \o stop.calls)
    ELSE Ret(s, p, delta, input, BasicTask_Stopped(s.end), Stopped(s.end),
             <<>>)

(* mutant: the firing of stop is reported but the state stays Running *)
StepBasicTask_NoLatch(s, delta, input, p) ==
    IF s.st = "Running"
    THEN LET stop == Step(s.stop, delta, input, p \o <<"stop">>)
         IN  IF stop.out.tag = "Event"
             THEN Ret(s, p, delta, input, BasicTask_Running(s.run, stop.next),
                      Stopped(stop.out.val), stop.calls)
             ELSE LET run == Step(s.run, delta, input, p \o <<"run">>)
                  IN  Ret(s, p, delta, input,
                          BasicTask_Running(run.next, stop.next),
                          Running(run.out), stop.calls \o run.calls)
    ELSE Ret(s, p, delta, input, BasicTask_Stopped(s.end), Stopped(s.end),
             <<>>)

StepBasicTask(s, delta, input, p) ==
    IF s.st = "Running"
    THEN LET stop == Step(s.stop, delta, input, p \o <<"stop">>)
         IN  IF stop.out.tag = "Event"
             THEN Ret(s, p, delta, input, BasicTask_Stopped(stop.out.val),
                      Stopped(stop.out.val), stop.calls)
             ELSE LET run == Step(s.run, delta, input, p \o <<"run">>)
                  IN  Ret(s, p, delta, input,
                          BasicTask_Running(run.next, stop.next),
                          Running(run.out), stop.calls \o run.calls)
    ELSE Ret(s, p, delta, input, BasicTask_Stopped(s.end), Stopped(s.end),
             <<>>)

(* mutant: the added stop's firing is reported but the state stays Running *)
StepAddStop_NoLatch(s, delta, input, p) ==
    IF s.st = "Running"
    THEN LET stop == Step(s.stop, delta, input, p \o <<"stop">>)
         IN  IF stop.out.tag = "Event"
             THEN Ret(s, p, delta, input, AddStop_Running(s.task, stop.next),
                      Stopped(stop.out.val), stop.calls)
             ELSE LET task == Step(s.task, delta, input, p \o <<"task">>)
                  IN  IF task.out.tag = "Running"
                      THEN Ret(s, p, delta, input,
                               AddStop_Running(task.next, stop.next),
                               Running(task.out.val),
                               stop.calls \o task.calls)
                      ELSE Ret(s, p, delta, input,
                               AddStop_Stopped(task.out.end),
                               Stopped(task.out.end),
                               stop.calls \o task.calls)
    ELSE Ret(s, p, delta, input, AddStop_Stopped(s.end), Stopped(s.end), <<>>)

(* mutant: the inner task is asked first, the added stop only after it *)
StepAddStop_TaskFirst(s, delta, input, p) ==
    IF s.st = "Running"
    THEN LET task == Step(s.task, delta, input, p \o <<"task">>)
         IN  IF task.out.tag = "Stopped"
             THEN Ret(s, p, delta, input, AddStop_Stopped(task.out.end),
                      Stopped(task.out.end), task.calls)
             ELSE LET stop == Step(s.stop, delta, input, p \o <<"stop">>)
                  IN  IF stop.out.tag = "Event"
                      THEN Ret(s, p, delta, input,
                               AddStop_Stopped(stop.out.val),
                               Stopped(stop.out.val),
                               task.calls \o stop.calls)
                      ELSE Ret(s, p, delta, input,
                               AddStop_Running(task.next, stop.next),
                               Running(task.out.val),
                               task.calls \o stop.calls)
    ELSE Ret(s, p, delta, input, AddStop_Stopped(s.end), Stopped(s.end), <<>>)

StepAddStop(s, delta, input, p) ==
    IF s.st = "Running"
    THEN LET stop == Step(s.stop, delta, input, p \o <<"stop">>)
         IN  IF stop.out.tag = "Event"
             THEN Ret(s, p, delta, input, AddStop_Stopped(stop.out.val),
                      Stopped(stop.out.val), stop.calls)
             ELSE LET task == Step(s.task, delta, input, p \o <<"task">>)
                  IN  IF task.out.tag = "Running"
                      THEN Ret(s, p, delta, input,
                               AddStop_Running(task.next, stop.next),
                               Running(task.out.val),
                               stop.calls \o task.calls)
                      ELSE Ret(s, p, delta, input,
                               AddStop_Stopped(task.out.end),
                               Stopped(task.out.end),
                               stop.calls \o task.calls)
    ELSE Ret(s, p, delta, input, AddStop_Stopped(s.end), Stopped(s.end), <<>>)

(* mutant: second is stepped on every tick, also while first is running *)
StepSeqTask_EagerSecond(s, delta, input, p) ==
    LET first == Step(s.first, delta, input, p \o <<"first">>)
        second == Step(s.second, delta, input, p \o <<"second">>)
    IN  IF first.out.tag = "Running"
        THEN Ret(s, p, delta, input, SeqTask(first.next, second.next),
                 Running(first.out.val), first.calls \o second.calls)
        ELSE Ret(s, p, delta, input, SeqTask(first.next, second.next),
                 second.out, first.calls \o second.calls)

(* mutant: second is stepped with twice the delta *)
StepSeqTask_SecondCatchesUp(s, delta, input, p) ==
    LET first == Step(s.first, delta, input, p \o <<"first">>)
    IN  IF first.out.tag = "Running"
        THEN Ret(s, p, delta, input, SeqTask(first.next, s.second),
                 Running(first.out.val), first.calls)
        ELSE LET second == Step(s.second, delta + delta, input,
                                p \o <<"second">>)
             IN  Ret(s, p, delta, input, SeqTask(first.next, second.next),
                     second.out, first.calls \o second.calls)

StepSeqTask(s, delta, input, p) ==
    LET first == Step(s.first, delta, input, p \o <<"first">>)
    IN  IF first.out.tag = "Running"
        THEN Ret(s, p, delta, input, SeqTask(first.next, s.second),
                 Running(first.out.val), first.calls)
        ELSE LET second == Step(s.second, delta, input, p \o <<"second">>)
             IN  Ret(s, p, delta, input, SeqTask(first.next, second.next),
                     second.out, first.calls \o second.calls)

Step(s, delta, input, p) ==
    CASE s.kind = "Identity" -> StepIdentity(s, delta, input, p)
      [] s.kind = "Const" -> StepConst(s, delta, input, p)
      [] s.kind = "Lift" -> StepLift(s, delta, input, p)
      [] s.kind = "Never" -> StepNever(s, delta, input, p)
      [] s.kind = "After" -> StepAfter(s, delta, input, p)
      [] s.kind = "Edge" -> StepEdge(s, delta, input, p)
      [] s.kind = "Hold" -> StepHold(s, delta, input, p)
      [] s.kind = "Delay" -> StepDelay(s, delta, input, p)
      [] s.kind = "Accum" -> StepAccum(s, delta, input, p)
      [] s.kind = "Compose" -> StepCompose(s, delta, input, p)
      [] s.kind = "Split" -> StepSplit(s, delta, input, p)
      [] s.kind = "BasicTask" -> StepBasicTask(s, delta, input, p)
      [] s.kind = "AddStop" -> StepAddStop(s, delta, input, p)
      [] s.kind = "SeqTask" -> StepSeqTask(s, delta, input, p)

(***************************************************************************)
(* Constructors.                                                           *)
(***************************************************************************)
identity == Identity

constant(value) == Const(value)

lift(f) == Lift(f)

map(f) == Lift(f)

map2(f) == Lift(f)

delay(init) == Delay(init)

accum(init, f) == Accum(init, f)

compose(left, right) == Compose(left, right)

split(first, second) == Split(first, second)

fanout(first, second) == compose(map(Dup), split(first, second))

(* (self & other) | map2(|x, y| x $op y) *)
overload_operator(op, self, other) == compose(fanout(self, other), map2(Op(op)))

add(self, other) == overload_operator("+", self, other)

sub(self, other) == overload_operator("-", self, other)

mul(self, other) == overload_operator("*", self, other)

div(self, other) == overload_operator("/", self, other)

(* mutant: the difference is taken the other way round *)
derivative_Reversed == compose(sub(delay(0), identity), lift(DivDt))

derivative == compose(sub(identity, delay(0)), lift(DivDt))

integral == accum(0, IntegralFn)

fold(init, f) == accum(init, FoldFn(f))

never == Never

after(time, value) == After_NotYet(time, value)

edge_init(init) == Edge(init)

edge == edge_init(FALSE)

hold(init) == Hold(init)

task(run, stop) == BasicTask_Running(run, stop)

forever(run) == task(run, never)

stop_with(t, stop) == AddStop_Running(t, stop)

(* mutant: the inner task's end value is passed on without Some *)
timeout_NoWrap(t, time) == stop_with(compose(t, identity), after(time, None))

timeout(t, time) == stop_with(compose(t, map(WrapSome)), after(time, None))

sequence(first, second) == SeqTask(first, second)

(***************************************************************************)
(* The macro sequence!.  Its input is the list of the task expressions and *)
(* whether a comma follows the last one; its rules are tried in order.     *)
(***************************************************************************)
(* no rule of the macro matches the tokens: the expansion does not compile *)
NoRules == [kind |-> "NoRules"]

RECURSIVE sequence_macro(_)

(* mutant: the element left over by the pairing is put in front *)
RECURSIVE sequence_level_OddFirst(_, _)
sequence_level_OddFirst(ts, acc) ==
    IF Len(ts) = 1
    THEN IF acc = <<>>
         THEN NoRules
         ELSE sequence_macro([tasks |-> <<ts[1]>> \o acc, trailing |-> FALSE])
    ELSE IF Len(ts) = 2
         THEN sequence_macro([tasks |-> acc \o <<sequence(ts[1], ts[2])>>,
                              trailing |-> FALSE])
         ELSE sequence_level_OddFirst(SubSeq(ts, 3, Len(ts)),
                                      acc \o <<sequence(ts[1], ts[2])>>)

(* the rules @level (..) -> (..): one level of the tree, pairing up        *)
(* consecutive elements                                                    *)
RECURSIVE sequence_level(_, _)
sequence_level(ts, acc) ==
    IF Len(ts) = 1
    THEN IF acc = <<>>
         THEN NoRules
         ELSE sequence_macro([tasks |-> acc \o <<ts[1]>>, trailing |-> FALSE])
    ELSE IF Len(ts) = 2
         THEN sequence_macro([tasks |-> acc \o <<sequence(ts[1], ts[2])>>,
                              trailing |-> FALSE])
         ELSE sequence_level(SubSeq(ts, 3, Len(ts)),
                             acc \o <<sequence(ts[1], ts[2])>>)

(* the rules [$task], [$($tasks),+] and [$($tasks,)+] *)
sequence_macro(m) ==
    IF m.tasks = <<>>
    THEN NoRules
    ELSE IF ~m.trailing
         THEN IF Len(m.tasks) = 1
              THEN m.tasks[1]
              ELSE sequence_level(m.tasks, <<>>)
         ELSE sequence_macro([tasks |-> m.tasks, trailing |-> FALSE])

(***************************************************************************)
(* The driver: one call of SF::step per tick.                              *)
(***************************************************************************)
NoOutput == [tag |-> "NoOutput"]

(* the calls of a tick at which a lifted closure panics *)
PanicAt(cs) ==
    {i \in 1 .. Len(cs) :
        /\ cs[i].self.kind = "Lift"
        /\ LiftPanics(cs[i].self.f, cs[i].delta, cs[i].input)}

IsPrefix(p, q) == Len(p) <= Len(q) /\ SubSeq(q, 1, Len(p)) = p

(* the calls of a tick up to its first panicking call k: that call and    *)
(* the calls enclosing it do not return                                    *)
UnwoundAt(cs, k) ==
    [i \in 1 .. k |->
        IF IsPrefix(cs[i].path, cs[k].path)
        THEN [cs[i] EXCEPT !.out = Panic, !.next = Unwound]
        ELSE cs[i]]

(* one tick: the driver calls step and keeps the successor.  A panic in   *)
(* the tick ends it at the first panicking call and leaves neither an     *)
(* output nor a transformer to step again.                                 *)
Call(delta, input) ==
    /\ sf.kind # "Unwound"
    /\ LET r == Step(sf, delta, input, <<>>)
            bad == PanicAt(r.calls)
       IN  IF bad = {}
           THEN /\ sf' = r.next
                /\ out' = r.out
                /\ calls' = r.calls
           ELSE /\ sf' = Unwound
                /\ out' = Panic
                /\ calls' = UnwoundAt(r.calls,
                                      CHOOSE i \in bad : \A j \in bad : i <= j)

Tick(delta, input) ==
    /\ Call(delta, input)
    /\ UNCHANGED <<sf0, trace>>

(* a tick whose delta, input and output are appended to the trace *)
TickLogged(delta, input) ==
    /\ Call(delta, input)
    /\ trace' = Append(trace, [delta |-> delta, input |-> input, out |-> out'])
    /\ UNCHANGED sf0

Start(S) ==
    /\ sf0 \in S
    /\ sf = sf0
    /\ out = NoOutput
    /\ calls = <<>>
    /\ trace = <<>>

Deltas == 0 .. MaxDelta

(***************************************************************************)
(* Tasks built from task, forever, stop_with, timeout and sequence, nested *)
(* up to Depth.  lv counts the Option wrappers timeout has put around the  *)
(* end type, so that only well-typed tasks are built.                      *)
(***************************************************************************)
Leaves ==
    {task(identity, map(StopEq(2, EndV(1)))), forever(identity)}

AddedStops(lv) ==
    IF lv = 0
    THEN {map(StopEq(3, EndV(2)))}
    ELSE {after(2, None)}

TaskTerms[d \in 0 .. Depth] ==
    IF d = 0
    THEN {[term |-> l, lv |-> 0] : l \in Leaves}
    ELSE LET T == TaskTerms[d - 1]
             B == TaskTerms[0]
             M == TaskTerms[IF d > 1 THEN 1 ELSE 0]
         IN  T
             \cup {[term |-> stop_with(x[1].term, x[2]), lv |-> x[1].lv] :
                      x \in UNION {{<<t, st>> : st \in AddedStops(t.lv)} :
                                      t \in T}}
             \cup {[term |-> timeout(t.term, 1), lv |-> t.lv + 1] : t \in T}
             \cup {[term |-> sequence(x[1].term, x[2].term), lv |-> x[2].lv] :
                      x \in (T \X B) \cup (B \X T) \cup (M \X M)}

Tasks == {t.term : t \in TaskTerms[Depth]}

InitTask == Start(Tasks)

NextTask == \E delta \in 0 .. TaskDelta, input \in 1 .. TaskIn : Tick(delta, input)

SpecTask == InitTask /\ [][NextTask]_vars

(* C1: once a step of a task built from task, forever, stop_with, timeout  *)
(* and sequence has returned Stopped(X), every later step returns          *)
(* Stopped(X) with the same X, whatever delta and input it is given.       *)
C1_StoppedForever == [][out.tag = "Stopped" => out' = out]_vars

(* a nested task that had stopped is stepped again and reports Stopped *)
C1_Witness ==
    /\ calls # <<>>
    /\ out.tag = "Stopped"
    /\ sf0.kind = "SeqTask"
    /\ sf0.first.kind = "AddStop"
    /\ calls[1].self # sf0
    /\ calls[1].self = calls[1].next

(***************************************************************************)
(* Reading the calls of the last tick and replaying a transformer alone.   *)
(***************************************************************************)
HasCall(p) == \E i \in 1 .. Len(calls) : calls[i].path = p

CallIx(p) == CHOOSE i \in 1 .. Len(calls) : calls[i].path = p

CallOf(p) == calls[CallIx(p)]

(* the outputs of s stepped alone over the deltas and inputs of tr *)
RECURSIVE Run(_, _)
Run(s, tr) ==
    IF tr = <<>>
    THEN <<>>
    ELSE LET r == Step(s, tr[1].delta, tr[1].input, <<>>)
         IN  <<r.out>> \o Run(r.next, Tail(tr))

(* the outputs of s stepped alone by the driver over the deltas and inputs *)
(* of tr: a panic is the last output                                       *)
RECURSIVE Alone(_, _)
Alone(s, tr) ==
    IF tr = <<>>
    THEN <<>>
    ELSE LET r == Step(s, tr[1].delta, tr[1].input, <<>>)
         IN  IF PanicAt(r.calls) = {}
             THEN <<r.out>> \o Alone(r.next, Tail(tr))
             ELSE <<Panic>>

InputsOf(tr) == [i \in 1 .. Len(tr) |-> tr[i].input]

OutputsOf(tr) == [i \in 1 .. Len(tr) |-> tr[i].out]

(***************************************************************************)
(* sequence(first, second)                                                 *)
(***************************************************************************)
(* first stops on the tick its input is 3; second is identity, forever *)
SeqExample ==
    sequence(task(identity, map(StopEq(3, EndV(1)))), forever(identity))

SeqFirsts ==
    {task(identity, map(StopEq(3, EndV(1)))),
     task(delay(0), after(3, EndV(2))),
     timeout(forever(identity), 2)}

SeqSeconds ==
    {forever(identity),
     forever(delay(0)),
     task(delay(0), map(StopEq(3, EndV(4))))}

SeqTerms == {sequence(x[1], x[2]) : x \in SeqFirsts \X SeqSeconds}

InitSeq == Start(SeqTerms)

NextSeq ==
    \E delta \in 1 .. 2, input \in 1 .. 4 :
        Len(trace) < SeqSteps /\ TickLogged(delta, input)

SpecSeq == InitSeq /\ [][NextSeq]_vars

(* C2: for sequence(first, second), on every tick before first reports     *)
(* Stopped the composite outputs Running(first's payload) and second is    *)
(* not stepped; on the first tick at which first reports Stopped, second,  *)
(* still in its initial state, is stepped on that same tick with the same  *)
(* delta and input and the composite returns second's output.  With first  *)
(* stopping on its 3rd step, second = forever(identity) and inputs         *)
(* [1,2,3,4] the outputs are Running(1), Running(2), Running(3),           *)
(* Running(4).                                                             *)
C2_SameTickHandoff ==
    LET n == Len(trace)
        fo == Run(sf0.first, trace)
    IN  /\ n > 0 =>
            /\ HasCall(<<"first">>)
            /\ CallOf(<<"first">>).out = fo[n]
            /\ fo[n].tag = "Running" =>
                  /\ out = Running(fo[n].val)
                  /\ ~HasCall(<<"second">>)
            /\ (fo[n].tag = "Stopped" /\ \A k \in 1 .. n - 1 : fo[k].tag = "Running") =>
                  /\ HasCall(<<"second">>)
                  /\ CallIx(<<"first">>) < CallIx(<<"second">>)
                  /\ CallOf(<<"second">>).self = sf0.second
                  /\ CallOf(<<"second">>).delta = trace[n].delta
                  /\ CallOf(<<"second">>).input = trace[n].input
                  /\ out = CallOf(<<"second">>).out
                  /\ out = Step(sf0.second, trace[n].delta, trace[n].input, <<>>).out
        /\ (sf0 = SeqExample /\ InputsOf(trace) = <<1, 2, 3, 4>>) =>
              OutputsOf(trace) = <<Running(1), Running(2), Running(3), Running(4)>>

(* the example run: first has stopped on its 3rd step, 4 ticks are done *)
C2_Witness ==
    /\ sf0 = SeqExample
    /\ InputsOf(trace) = <<1, 2, 3, 4>>
    /\ sf.first.st = "Stopped"
    /\ Run(sf0.first, trace)[2].tag = "Running"
    /\ Run(sf0.first, trace)[3].tag = "Stopped"

(***************************************************************************)
(* task(run, stop)                                                         *)
(***************************************************************************)
Runs == {identity, delay(0), compose(delay(0), delay(0))}

Stops ==
    {never, map(StopEq(1, EndV(1))), map(StopEq(2, EndV(2)))}
    \cup {after(d, EndV(3)) : d \in 0 .. MaxDur}

BasicTasks == {task(x[1], x[2]) : x \in Runs \X Stops}

InitBasicTask == Start(BasicTasks)

NextBasicTask ==
    \E delta \in Deltas, input \in 1 .. TaskIn : Tick(delta, input)

SpecBasicTask == InitBasicTask /\ [][NextBasicTask]_vars

(* C3: on each tick of a running task(run, stop), stop is stepped first    *)
(* with the tick's delta and input; if it yields a present event E the     *)
(* output is Stopped(E), the task is in its stopped state, which every     *)
(* later step keeps, and run is not stepped on that tick; otherwise run is *)
(* stepped with the same delta and input, the output is Running(run's      *)
(* output) and the successor holds the successors of run and stop.         *)
C3_StopBeforeRun ==
    calls # <<>> =>
      LET c == calls[1]
      IN  IF c.self.st = "Running"
          THEN /\ Len(calls) >= 2
               /\ calls[2].path = <<"stop">>
               /\ calls[2].self = c.self.stop
               /\ calls[2].delta = c.delta /\ calls[2].input = c.input
               /\ IF calls[2].out.tag = "Event"
                  THEN /\ out = Stopped(calls[2].out.val)
                       /\ sf = BasicTask_Stopped(calls[2].out.val)
                       /\ ~HasCall(<<"run">>)
                  ELSE /\ HasCall(<<"run">>)
                       /\ CallOf(<<"run">>).self = c.self.run
                       /\ CallOf(<<"run">>).delta = c.delta
                       /\ CallOf(<<"run">>).input = c.input
                       /\ out = Running(CallOf(<<"run">>).out)
                       /\ sf = BasicTask_Running(CallOf(<<"run">>).next,
                                                 calls[2].next)
          ELSE /\ Len(calls) = 1
               /\ out = Stopped(c.self.end)
               /\ sf = c.self

(* the stop fires on the very first tick of a task whose run has state *)
C3_Witness ==
    /\ calls # <<>>
    /\ calls[1].self = sf0
    /\ sf0.run.kind = "Delay"
    /\ out.tag = "Stopped"

(***************************************************************************)
(* stop_with(task, stop)                                                   *)
(***************************************************************************)
InnerTasks ==
    {task(identity, map(StopEq(2, EndV(1)))),
     task(delay(0), after(2, EndV(2))),
     forever(delay(0)),
     sequence(task(identity, map(StopEq(1, EndV(1)))),
              task(delay(0), map(StopEq(2, EndV(2))))),
     stop_with(forever(identity), map(StopEq(3, EndV(4))))}

MoreStops ==
    {never, map(StopEq(2, EndV(5))), after(1, EndV(6)), after(2, EndV(6))}

AddStops == {stop_with(x[1], x[2]) : x \in InnerTasks \X MoreStops}

InitAddStop == Start(AddStops)

NextAddStop ==
    \E delta \in Deltas, input \in 1 .. TaskIn : Tick(delta, input)

SpecAddStop == InitAddStop /\ [][NextAddStop]_vars

(* C4: on each running tick of stop_with(task, stop) the added stop is     *)
(* stepped before the inner task; if it fires with E the output is         *)
(* Stopped(E) and the inner task is not stepped on that tick, also when    *)
(* the inner task would itself have stopped on that tick; if it does not   *)
(* fire and the inner task reports Stopped(V) the output is Stopped(V);    *)
(* after either the composite is in its stopped state, which every later   *)
(* step keeps with the same value.                                         *)
C4_AddedStopFirst ==
    calls # <<>> =>
      LET c == calls[1]
      IN  IF c.self.st = "Running"
          THEN /\ Len(calls) >= 2
               /\ calls[2].path = <<"stop">>
               /\ calls[2].self = c.self.stop
               /\ calls[2].delta = c.delta /\ calls[2].input = c.input
               /\ IF calls[2].out.tag = "Event"
                  THEN /\ out = Stopped(calls[2].out.val)
                       /\ sf = AddStop_Stopped(calls[2].out.val)
                       /\ ~HasCall(<<"task">>)
                  ELSE /\ HasCall(<<"task">>)
                       /\ CallOf(<<"task">>).self = c.self.task
                       /\ CallOf(<<"task">>).delta = c.delta
                       /\ CallOf(<<"task">>).input = c.input
                       /\ out = CallOf(<<"task">>).out
                       /\ IF out.tag = "Stopped"
                          THEN sf = AddStop_Stopped(out.end)
                          ELSE sf = AddStop_Running(CallOf(<<"task">>).next,
                                                    calls[2].next)
          ELSE /\ Len(calls) = 1
               /\ out = Stopped(c.self.end)
               /\ sf = c.self

(* the added stop fires on a tick on which the inner task, stepped with    *)
(* the same delta and input, would have stopped with another value         *)
C4_Witness ==
    /\ calls # <<>>
    /\ calls[1].self.st = "Running"
    /\ calls[2].out.tag = "Event"
    /\ LET t == Step(calls[1].self.task, calls[1].delta, calls[1].input, <<>>)
       IN  t.out.tag = "Stopped" /\ t.out.end # calls[2].out.val
    /\ out = Stopped(calls[2].out.val)

(***************************************************************************)
(* timeout(task, duration)                                                 *)
(***************************************************************************)
(* the sum of the first k deltas of tr *)
RECURSIVE Elapsed(_, _)
Elapsed(tr, k) == IF k = 0 THEN 0 ELSE Elapsed(tr, k - 1) + tr[k].delta

TimedTasks ==
    {task(identity, map(StopEq(2, EndV(1)))),
     task(delay(0), after(2, EndV(2))),
     forever(identity)}

Timeouts == {timeout(x[1], x[2]) : x \in TimedTasks \X (0 .. MaxDur)}

InitTimeout == Start(Timeouts)

NextTimeout ==
    \E delta \in Deltas, input \in 1 .. 2 :
        Len(trace) < MaxSteps /\ TickLogged(delta, input)

SpecTimeout == InitTimeout /\ [][NextTimeout]_vars

(* C5: with non-negative deltas timeout(task, duration) reports            *)
(* Stopped(None) on the first tick at which the cumulative delta reaches   *)
(* or exceeds duration, provided the inner task, stepped alone, has not    *)
(* reported stopped on a strictly earlier tick (so also when both fall on  *)
(* the same tick), and not before; if the inner task reports Stopped(V) on *)
(* a strictly earlier tick the composite reports Stopped(Some(V)) from     *)
(* that tick on, also after the deadline has passed.                       *)
C5_TimeoutOrEnd ==
    LET n == Len(trace)
        dur == sf0.stop.time
        io == Run(sf0.task.left, trace)
        Due(k) == Elapsed(trace, k) >= dur
        Ended(k) == io[k].tag = "Stopped"
    IN  n > 0 =>
          /\ (Due(n) /\ \A k \in 1 .. n - 1 : ~Due(k) /\ ~Ended(k)) =>
                out = Stopped(None)
          /\ (\A k \in 1 .. n : ~Due(k)) => out # Stopped(None)
          /\ \A k \in 1 .. n :
                (Ended(k) /\ \A j \in 1 .. k : ~Due(j)) =>
                    out = Stopped(Some(io[k].end))

(* the inner task stopped first and the deadline has passed since *)
C5_Witness ==
    LET n == Len(trace)
        io == Run(sf0.task.left, trace)
    IN  /\ n >= 3
        /\ io[1].tag = "Running"
        /\ io[n - 1].tag = "Stopped"
        /\ Elapsed(trace, n - 1) < sf0.stop.time
        /\ Elapsed(trace, n) > sf0.stop.time
        /\ out = Stopped(Some(io[n - 1].end))

(***************************************************************************)
(* after(duration, value)                                                  *)
(***************************************************************************)
Afters == {after(d, 7) : d \in -1 .. AfterDur}

InitAfter == Start(Afters)

NextAfter ==
    \E delta \in -1 .. MaxDelta :
        Len(trace) < MaxSteps /\ TickLogged(delta, 0)

SpecAfter == InitAfter /\ [][NextAfter]_vars

(* C6: each step of a pending after(duration, value) subtracts delta from  *)
(* the remaining time; on the first step whose result is zero or negative  *)
(* the output is present(value) and the state becomes fired; on every      *)
(* other step, before or after, the output is absent, and the fired state  *)
(* is kept for every later delta.  With duration 5 and deltas [2,2,2] the  *)
(* outputs are absent, absent, present(V), and absent on every later step. *)
C6_AfterFiresOnce ==
    LET n == Len(trace)
        Rem(k) == sf0.time - Elapsed(trace, k)
        First(k) == Rem(k) <= 0 /\ \A j \in 1 .. k - 1 : Rem(j) > 0
    IN  n > 0 =>
          /\ out = IF First(n) THEN Event(sf0.value) ELSE NoEvent
          /\ sf = IF \E k \in 1 .. n : Rem(k) <= 0
                  THEN After_Past
                  ELSE After_NotYet(Rem(n), sf0.value)
          /\ (sf0 = after(5, 7) /\ n >= 3 /\ \A k \in 1 .. 3 : trace[k].delta = 2) =>
                \A k \in 1 .. n :
                    trace[k].out = IF k = 3 THEN Event(7) ELSE NoEvent

(* duration 5, deltas 2, 2, 2 and one more step *)
C6_Witness ==
    /\ sf0 = after(5, 7)
    /\ Len(trace) = 4
    /\ \A k \in 1 .. 3 : trace[k].delta = 2
    /\ trace[3].out = Event(7)
    /\ sf = After_Past

(* C18: After neither clamps nor looks at the sign of delta.  A step of a  *)
(* pending After whose delta brings the remaining time to exactly zero     *)
(* fires; a negative delta raises the remaining time by its magnitude, and *)
(* the step does not fire while the result is positive; so the tick that   *)
(* fires is the first at which duration minus the sum of the deltas is     *)
(* zero or negative; a pending After created with a zero or negative       *)
(* duration fires on a first step with delta zero.                         *)
C18_NoClamping ==
    LET n == Len(trace)
        Rem(k) == sf0.time - Elapsed(trace, k)
    IN  n > 0 =>
          LET c == calls[1]
          IN  /\ c.self.st = "NotYet" =>
                    /\ c.self.time - c.delta = 0 =>
                          c.out = Event(sf0.value) /\ c.next = After_Past
                    /\ (c.delta < 0 /\ c.self.time - c.delta > 0) =>
                          /\ c.out = NoEvent
                          /\ c.next.st = "NotYet"
                          /\ c.next.time = c.self.time + Abs(c.delta)
                    /\ (n = 1 /\ sf0.time <= 0 /\ c.delta = 0) =>
                          c.out = Event(sf0.value)
              /\ c.out.tag = "Event" <=>
                    (Rem(n) <= 0 /\ \A j \in 1 .. n - 1 : Rem(j) > 0)

(* a negative delta has raised the remaining time above the duration and   *)
(* the next step brings it to exactly zero                                 *)
C18_Witness ==
    /\ Len(trace) = 3
    /\ sf0 = after(1, 7)
    /\ trace[1].delta = 0
    /\ trace[2].delta = -1
    /\ trace[2].out = NoEvent
    /\ calls[1].self = After_NotYet(2, 7)
    /\ trace[3].delta = 2
    /\ out = Event(7)

(***************************************************************************)
(* edge_init(init) and edge()                                              *)
(***************************************************************************)
Edges == {edge, edge_init(TRUE)}

InitEdge == Start(Edges)

NextEdge ==
    \E delta \in 1 .. 2, on \in BOOLEAN :
        Len(trace) < EdgeSteps /\ TickLogged(delta, on)

SpecEdge == InitEdge /\ [][NextEdge]_vars

(* C7: the output of edge_init(init) at a step is present(()) exactly when *)
(* the previous sample (init for the first step) is false and the current  *)
(* sample is true, and absent otherwise; edge() starts from false.  Fed    *)
(* [false, true, true, false, true], edge() outputs absent, present(()),   *)
(* absent, absent, present(()).                                            *)
C7_RisingEdge ==
    LET n == Len(trace)
        Prev(k) == IF k = 1 THEN sf0.last ELSE trace[k - 1].input
    IN  /\ edge.last = FALSE
        /\ n > 0 =>
              out = IF ~Prev(n) /\ trace[n].input THEN Event(<<>>) ELSE NoEvent
        /\ (sf0 = edge /\ InputsOf(trace) = <<FALSE, TRUE, TRUE, FALSE, TRUE>>) =>
              OutputsOf(trace) =
                  <<NoEvent, Event(<<>>), NoEvent, NoEvent, Event(<<>>)>>

(* the example run of edge() *)
C7_Witness ==
    /\ sf0 = edge
    /\ InputsOf(trace) = <<FALSE, TRUE, TRUE, FALSE, TRUE>>
    /\ out = Event(<<>>)

(***************************************************************************)
(* delay(init)                                                             *)
(***************************************************************************)
Vals == 0 .. MaxVal

Delays == {delay(v) : v \in Vals}

InitDelay == Start(Delays)

NextDelay ==
    \E delta \in 1 .. 2, value \in Vals :
        Len(trace) < MaxSteps /\ TickLogged(delta, value)

SpecDelay == InitDelay /\ [][NextDelay]_vars

(* C8: the first output of delay(init) equals init, the output at step     *)
(* n >= 2 equals the input fed at step n-1, for any deltas, and the state  *)
(* after each step holds that step's input.                                *)
C8_OneStepLag ==
    LET n == Len(trace)
    IN  n > 0 =>
          /\ out = IF n = 1 THEN sf0.held ELSE trace[n - 1].input
          /\ sf = Delay(trace[n].input)

(* three steps with pairwise different init, first and second input *)
C8_Witness ==
    /\ Len(trace) = 3
    /\ trace[1].out = sf0.held
    /\ trace[1].input # sf0.held
    /\ trace[2].input # trace[1].input
    /\ trace[2].delta # trace[1].delta
    /\ out = trace[2].input
    /\ out # trace[3].input

(***************************************************************************)
(* fold(init, f)                                                           *)
(***************************************************************************)
Events == {NoEvent} \cup {Event(v) : v \in 1 .. MaxVal}

(* the payloads of the present events of tr, in order *)
RECURSIVE Payloads(_)
Payloads(tr) ==
    IF tr = <<>>
    THEN <<>>
    ELSE (IF tr[1].input.tag = "Event" THEN <<tr[1].input.val>> ELSE <<>>)
         \o Payloads(Tail(tr))

(* the left fold of vs from acc with the user's f(value, acc) *)
RECURSIVE LeftFold(_, _, _)
LeftFold(f, acc, vs) ==
    IF vs = <<>> THEN acc ELSE LeftFold(f, UserF(f, vs[1], acc), Tail(vs))

Folds == {fold(x[1], x[2]) : x \in (0 .. 1) \X {"Horner", "Sum", "Newest"}}

InitFold == Start(Folds)

NextFold ==
    \E delta \in 1 .. 2, ev \in Events :
        Len(trace) < MaxSteps /\ TickLogged(delta, ev)

SpecFold == InitFold /\ [][NextFold]_vars

(* C9: fed any sequence of events whose present ones carry v1..vk in       *)
(* order, fold(init, f) outputs after the last step the left fold of       *)
(* v1..vk from init with f, whatever absent events are interleaved and     *)
(* whatever the deltas; a step with an absent event outputs the            *)
(* accumulator unchanged.                                                  *)
C9_FoldInvariant ==
    LET n == Len(trace)
    IN  n > 0 =>
          /\ out = LeftFold(sf0.f.f, sf0.value, Payloads(trace))
          /\ sf.value = out
          /\ trace[n].input = NoEvent =>
                out = IF n = 1 THEN sf0.value ELSE trace[n - 1].out

(* two payloads whose order matters, with absent events between and after *)
C9_Witness ==
    /\ sf0 = fold(1, "Horner")
    /\ Len(trace) = 4
    /\ Payloads(trace) = <<1, 2>>
    /\ trace[4].input = NoEvent
    /\ out # LeftFold("Horner", 1, <<2, 1>>)

(***************************************************************************)
(* hold(init)                                                              *)
(***************************************************************************)
Holds == {hold(v) : v \in Vals}

InitHold == Start(Holds)

NextHold ==
    \E delta \in 1 .. 2, ev \in Events :
        Len(trace) < MaxSteps /\ TickLogged(delta, ev)

SpecHold == InitHold /\ [][NextHold]_vars

(* C10: the output of hold(init) at each step is the payload of the most   *)
(* recent present event up to and including that step, or init when none   *)
(* has occurred; an absent input leaves the held value unchanged.          *)
C10_SampleAndHold ==
    LET n == Len(trace)
        Present == {k \in 1 .. n : trace[k].input.tag = "Event"}
        Last == CHOOSE k \in Present : \A j \in Present : j <= k
    IN  n > 0 =>
          /\ out = IF Present = {} THEN sf0.held ELSE trace[Last].input.val
          /\ sf = Hold(out)
          /\ trace[n].input = NoEvent => sf = calls[1].self

(* a payload different from init is still held two absent steps later *)
C10_Witness ==
    /\ Len(trace) = 4
    /\ trace[1].input = NoEvent
    /\ trace[1].out = sf0.held
    /\ trace[2].input.tag = "Event"
    /\ trace[2].input.val # sf0.held
    /\ trace[3].input = NoEvent
    /\ trace[4].input = NoEvent
    /\ out = trace[2].input.val

(***************************************************************************)
(* compose with identity                                                   *)
(***************************************************************************)
(* transformers of numbers with a state, some of them reading the delta *)
Parts ==
    {delay(0), integral, derivative, after(2, 7),
     task(delay(1), map(StopEq(2, EndV(1))))}

IdLaws == {compose(identity, x) : x \in Parts} \cup
          {compose(x, identity) : x \in Parts}

InitIdLaw == Start(IdLaws)

NextIdLaw ==
    /\ Len(trace) < MaxSteps
    /\ \E delta \in 0 .. 2, input \in 0 .. 2 : TickLogged(delta, input)

SpecIdLaw == InitIdLaw /\ [][NextIdLaw]_vars

(* the part of compose(identity, X) or compose(X, identity) that is X *)
PartOf(s) == IF s.left = identity THEN s.right ELSE s.left

(* C11: for every X and every sequence of deltas and inputs,               *)
(* compose(identity, X) and compose(X, identity) give the output sequence  *)
(* that X gives when stepped alone over the same deltas and inputs.        *)
C11_IdentityLaws == OutputsOf(trace) = Alone(PartOf(sf0), trace)

(* X on the right of identity has accumulated over three ticks *)
C11_Witness ==
    /\ Len(trace) >= 3
    /\ sf0 = compose(identity, integral)
    /\ sf.right.value > 2
    /\ trace[1].out # trace[3].out

(***************************************************************************)
(* A + B, A - B, A * B, A / B                                              *)
(***************************************************************************)
Operands == {identity, delay(1), integral}

Ariths ==
    {overload_operator(x[1], x[2], x[3]) :
        x \in {"+", "-", "*", "/"} \X Operands \X Operands}

InitArith == Start(Ariths)

NextArith ==
    /\ Len(trace) < MaxSteps
    /\ \E delta \in 1 .. 2, input \in {-3, 0, 2} : TickLogged(delta, input)

SpecArith == InitArith /\ [][NextArith]_vars

(* c is x op y; for / it is the quotient rounded towards zero *)
IsResult(op, x, y, c) ==
    CASE op = "+" -> c = x + y
      [] op = "-" -> c = x - y
      [] op = "*" -> c = x * y
      [] op = "/" ->
            LET rem == x - c * y
            IN  /\ Abs(rem) < Abs(y)
                /\ (rem = 0 \/ (rem < 0) = (x < 0))

(* C12: at every step the output of (A op B) is the output of A alone op   *)
(* the output of B alone, A's output being the left operand, for +, -, *   *)
(* and /; a quotient by B's output zero is a panic that ends the run.      *)
C12_ArithmeticLifting ==
    LET a == Run(sf0.left.right.first, trace)
        b == Run(sf0.left.right.second, trace)
        op == sf0.right.f.op
    IN  \A i \in 1 .. Len(trace) :
           IF op = "/" /\ b[i] = 0
           THEN i = Len(trace) /\ sf.kind = "Unwound"
           ELSE IsResult(op, a[i], b[i], trace[i].out)

(* -3 / 2 = -1: the operands of a lifted / come from two stateful parts *)
C12_Witness ==
    /\ Len(trace) >= 2
    /\ sf0 = div(integral, delay(1))
    /\ sf.kind # "Unwound"
    /\ trace[Len(trace)].out = -1
    /\ sf.left.right.first.value = -3
    /\ trace[Len(trace) - 1].input = 2

(***************************************************************************)
(* forever(run)                                                            *)
(***************************************************************************)
ForeverRuns ==
    {identity, delay(0), integral, after(2, 7), compose(delay(1), integral)}

Forevers == {forever(r) : r \in ForeverRuns}

InitForever == Start(Forevers)

NextForever ==
    /\ Len(trace) < MaxSteps
    /\ \E delta \in 0 .. 2, input \in 0 .. 2 : TickLogged(delta, input)

SpecForever == InitForever /\ [][NextForever]_vars

(* C13: every step of forever(run) returns Running(v), v being the output  *)
(* of run stepped alone over the same deltas and inputs; it never returns  *)
(* Stopped and its state stays Running.                                    *)
C13_ForeverRuns ==
    LET v == Run(sf0.run, trace)
    IN  /\ sf.st = "Running"
        /\ sf.stop = never
        /\ \A i \in 1 .. Len(trace) : trace[i].out = Running(v[i])

(* a stateful, time-dependent run has been wrapped for three ticks *)
C13_Witness ==
    /\ Len(trace) >= 3
    /\ sf0.run = compose(delay(1), integral)
    /\ out.tag = "Running"
    /\ out.val >= 3
    /\ trace[1].out # trace[2].out

(***************************************************************************)
(* Every combinator, stepped on every delta and input of its type.         *)
(***************************************************************************)
Quotients == {div(x[1], x[2]) : x \in Operands \X Operands}

Combinators ==
    {identity, constant(5), map(StopEq(2, EndV(1))), delay(0),
     accum(0, IntegralFn), compose(delay(0), integral),
     split(delay(0), integral), fanout(delay(0), integral),
     add(identity, delay(0)), sub(identity, delay(0)),
     mul(identity, identity), integral, derivative, fold(0, "Sum"), never,
     after(2, 7), edge, hold(0),
     task(delay(0), map(StopEq(2, EndV(1)))), forever(integral),
     stop_with(forever(integral), after(2, EndV(2))),
     timeout(forever(delay(0)), 2),
     sequence(task(identity, map(StopEq(2, EndV(1)))), forever(integral))}
    \cup Quotients

Nums == {-1, 0, 2}

(* the inputs of the type the transformer takes *)
InputsFor(s) ==
    CASE s.kind = "Edge" -> BOOLEAN
      [] s.kind = "Hold" -> Events
      [] s.kind = "Accum" /\ s.f.fn = "Fold" -> Events
      [] s.kind = "Split" -> Nums \X {0, 2}
      [] OTHER -> Nums

InitTotal == Start(Combinators)

NextTotal ==
    /\ Len(trace) < TotalSteps
    /\ \E delta \in Nums : \E input \in InputsFor(sf0) :
          TickLogged(delta, input)

SpecTotal == InitTotal /\ [][NextTotal]_vars

DividesByZero ==
    \/ sf0 = derivative /\ trace[Len(trace)].delta = 0
    \/ /\ sf0 \in Quotients
       /\ Run(sf0.left.right.second, trace)[Len(trace)] = 0

FrameFirsts ==
    {task(identity, map(StopEq(3, EndV(1)))),
     task(delay(0), after(3, EndV(2)))}

FrameSeconds ==
    {timeout(forever(identity), 2),
     task(integral, after(2, EndV(3))),
     forever(integral)}

FrameTerms == {sequence(x[1], x[2]) : x \in FrameFirsts \X FrameSeconds}

InitFrame == Start(FrameTerms)

NextFrame ==
    /\ Len(trace) < SeqSteps
    /\ \E delta \in 1 .. 2, input \in 1 .. 3 : TickLogged(delta, input)

SpecFrame == InitFrame /\ [][NextFrame]_vars

(* the ticks at which first, stepped alone, reports Stopped *)
StoppedAt(fo) == {k \in 1 .. Len(fo) : fo[k].tag = "Stopped"}

(* C15: a step of sequence(first, second) at which first reports Running   *)
(* leaves second as it was: no call reaches second and second's state in   *)
(* the successor is its state before the step, so a timer or accumulator   *)
(* in second counts from the handoff tick: from that tick on the outputs   *)
(* are those of the initial second stepped alone over the ticks since.     *)
C15_SecondUntouched ==
    LET n == Len(trace)
        fo == Run(sf0.first, trace)
    IN  n > 0 =>
          /\ fo[n].tag = "Running" =>
                /\ calls[1].next.second = calls[1].self.second
                /\ sf.second = sf0.second
                /\ \A i \in 1 .. Len(calls) : ~IsPrefix(<<"second">>, calls[i].path)
          /\ StoppedAt(fo) # {} =>
                LET k == CHOOSE j \in StoppedAt(fo) : \A l \in StoppedAt(fo) : j <= l
                    so == Run(sf0.second, SubSeq(trace, k, n))
                IN  \A i \in k .. n : trace[i].out = so[i - k + 1]

(* the timeout in second expired two ticks after the handoff at tick 2,    *)
(* after more time than its duration had passed since the start            *)
C15_Witness ==
    /\ Len(trace) = 3
    /\ sf0 = sequence(task(identity, map(StopEq(3, EndV(1)))),
                      timeout(forever(identity), 2))
    /\ trace[1].delta = 2
    /\ trace[1].out.tag = "Running"
    /\ trace[2].input = 3
    /\ trace[2].delta = 1
    /\ trace[2].out.tag = "Running"
    /\ trace[3].out = Stopped(None)

(***************************************************************************)
(* compose(A, B) with A and B stateful and reading the delta               *)
(***************************************************************************)
Stages == {integral, derivative, compose(delay(1), integral)}

Pipelines == {compose(x[1], x[2]) : x \in Stages \X Stages}

InitPipeline == Start(Pipelines)

NextPipeline ==
    /\ Len(trace) < MaxSteps
    /\ \E delta \in 1 .. 2, input \in {-1, 2, 3} : TickLogged(delta, input)

SpecPipeline == InitPipeline /\ [][NextPipeline]_vars

(* the ticks of tr with the inputs replaced by the values of xs *)
Feed(tr, xs) ==
    [i \in 1 .. Len(tr) |-> [delta |-> tr[i].delta, input |-> xs[i]]]

(* the state of s after it was stepped alone over tr *)
RECURSIVE StateAfter(_, _)
StateAfter(s, tr) ==
    IF tr = <<>>
    THEN s
    ELSE StateAfter(Step(s, tr[1].delta, tr[1].input, <<>>).next, Tail(tr))

(* C16: compose(A, B) steps A and then B once per tick, both with the      *)
(* tick's delta: the output of every step is the output of B stepped with  *)
(* that delta on A's output of that tick, and the successor state is the   *)
(* pair of the successors of A and B.                                      *)
C16_ComposeSteps ==
    LET n == Len(trace)
        ao == Run(sf0.left, trace)
        bo == Run(sf0.right, Feed(trace, ao))
    IN  /\ OutputsOf(trace) = bo
        /\ sf = Compose(StateAfter(sf0.left, trace),
                        StateAfter(sf0.right, Feed(trace, ao)))
        /\ n > 0 =>
              /\ CallOf(<<"left">>).delta = trace[n].delta
              /\ CallOf(<<"left">>).input = trace[n].input
              /\ CallOf(<<"right">>).delta = trace[n].delta
              /\ CallOf(<<"right">>).input = CallOf(<<"left">>).out
              /\ CallIx(<<"left">>) < CallIx(<<"right">>)
              /\ Len(SelectSeq(calls, LAMBDA c : Len(c.path) = 1)) = 2

(* an integral of a derivative: both parts have used three different ticks *)
C16_Witness ==
    /\ Len(trace) = 3
    /\ sf0 = compose(derivative, integral)
    /\ trace[1].delta # trace[2].delta
    /\ trace[1].input # trace[2].input
    /\ trace[2].input # trace[3].input
    /\ sf.right.value # 0
    /\ out # trace[3].input

(***************************************************************************)
(* split(T, U)                                                             *)
(***************************************************************************)
(* each leg is once the first and once the second of a pair *)
Splits ==
    {split(integral, delay(0)), split(delay(0), after(2, 7)),
     split(after(2, 7), integral)}

InitSplit == Start(Splits)

NextSplit ==
    /\ Len(trace) < TotalSteps
    /\ \E delta \in 1 .. 2, a \in 1 .. 2, b \in 1 .. 2 :
          TickLogged(delta, <<a, b>>)

SpecSplit == InitSplit /\ [][NextSplit]_vars

(* the runs of n ticks that differ from tr at most in half h of the inputs *)
Variants(tr, h) ==
    {[i \in 1 .. Len(tr) |->
        [delta |-> tr[i].delta,
         input |-> IF h = 2
                   THEN <<tr[i].input[1], w[i]>>
                   ELSE <<w[i], tr[i].input[2]>>]] :
        w \in [1 .. Len(tr) -> 1 .. 2]}

(* C17: two runs of split(T, U) with the same deltas and the same first    *)
(* halves of the inputs give the same first halves of the outputs and the  *)
(* same state of T at every step, whatever the second halves are; and the  *)
(* same for U with the halves exchanged.                                   *)
C17_LegsDoNotInterfere ==
    /\ \A v \in Variants(trace, 2) :
          LET vo == Run(sf0, v)
          IN  /\ \A i \in 1 .. Len(trace) : vo[i][1] = trace[i].out[1]
              /\ StateAfter(sf0, v).first = sf.first
    /\ \A v \in Variants(trace, 1) :
          LET vo == Run(sf0, v)
          IN  /\ \A i \in 1 .. Len(trace) : vo[i][2] = trace[i].out[2]
              /\ StateAfter(sf0, v).second = sf.second

(* both legs have a state that depends on their inputs, which differed *)
C17_Witness ==
    /\ Len(trace) = 3
    /\ sf0 = split(integral, delay(0))
    /\ \A i \in 1 .. 3 : trace[i].input[1] # trace[i].input[2]
    /\ sf.first.value > 3
    /\ sf.second.held = 2

(***************************************************************************)
(* integral()                                                              *)
(***************************************************************************)
InitIntegral == Start({integral})

NextIntegral ==
    /\ Len(trace) < MaxSteps
    /\ \E delta \in 0 .. 2, input \in {-2, 1, 3} : TickLogged(delta, input)

SpecIntegral == InitIntegral /\ [][NextIntegral]_vars

(* x1 * d1 + ... + xk * dk *)
RECURSIVE Rectangles(_, _)
Rectangles(tr, k) ==
    IF k = 0 THEN 0 ELSE Rectangles(tr, k - 1) + tr[k].input * tr[k].delta

(* C19: fed x1..xn with deltas d1..dn, integral() outputs at step n the sum *)
(* of xi * di over i = 1..n, starting from zero, and the accumulator kept   *)
(* in the successor state is that output.                                   *)
C19_RectangleRule ==
    /\ \A k \in 1 .. Len(trace) : trace[k].out = Rectangles(trace, k)
    /\ sf.value = Rectangles(trace, Len(trace))
    /\ sf.f = sf0.f

(* three samples of different signs and weights *)
C19_Witness ==
    /\ Len(trace) = 3
    /\ trace[1].input = 3 /\ trace[1].delta = 2
    /\ trace[2].input = -2 /\ trace[2].delta = 1
    /\ trace[3].input = 1 /\ trace[3].delta = 0
    /\ out = 4

(***************************************************************************)
(* derivative()                                                            *)
(***************************************************************************)
InitDerivative == Start({derivative})

NextDerivative ==
    /\ Len(trace) < MaxSteps
    /\ \E delta \in {-2, 0, 1, 3}, input \in {-3, 2, 5} :
          TickLogged(delta, input)

SpecDerivative == InitDerivative /\ [][NextDerivative]_vars

(* C20: fed x1..xn with non-zero deltas d1..dn, derivative() outputs at    *)
(* step n the quotient (xn - x(n-1)) / dn, x0 being zero, so the first     *)
(* output is x1 / d1.                                                      *)
C20_BackwardDifference ==
    (\A k \in 1 .. Len(trace) : trace[k].delta # 0) =>
        \A k \in 1 .. Len(trace) :
            LET last == IF k = 1 THEN 0 ELSE trace[k - 1].input
            IN  IsResult("/", trace[k].input - last, trace[k].delta,
                         trace[k].out)

(* a falling sample over a delta that does not divide the difference *)
C20_Witness ==
    /\ Len(trace) = 3
    /\ \A k \in 1 .. 3 : trace[k].delta # 0
    /\ trace[1].out = 5
    /\ trace[2].input = -3
    /\ trace[2].delta = 3
    /\ trace[2].out = -2
    /\ trace[3].delta = -2
    /\ trace[3].out = -4

(***************************************************************************)
(* sequence(sequence(a, b), c) and sequence(a, sequence(b, c))             *)
(***************************************************************************)
AssocAs ==
    {task(identity, map(StopEq(3, EndV(1)))),
     timeout(forever(identity), 1)}

AssocBs ==
    {task(delay(0), map(StopEq(3, EndV(2)))),
     task(identity, after(2, EndV(5)))}

AssocCs ==
    {forever(integral),
     timeout(forever(delay(0)), 2)}

LeftNested ==
    {sequence(sequence(x[1], x[2]), x[3]) :
        x \in AssocAs \X AssocBs \X AssocCs}

InitAssoc == Start(LeftNested)

NextAssoc ==
    /\ Len(trace) < SeqSteps
    /\ \E delta \in 1 .. 2, input \in 1 .. 3 : TickLogged(delta, input)

SpecAssoc == InitAssoc /\ [][NextAssoc]_vars

(* sequence(a, sequence(b, c)) for s = sequence(sequence(a, b), c) *)
RightNested(s) ==
    sequence(s.first.first, sequence(s.first.second, s.second))

(* C21: at every step of every sequence of deltas and inputs,              *)
(* sequence(sequence(a, b), c) gives the output that                       *)
(* sequence(a, sequence(b, c)) gives, also on a tick at which a and b both *)
(* report Stopped and c is stepped on that same tick.                      *)
C21_SequenceAssociative ==
    OutputsOf(trace) = Run(RightNested(sf0), trace)

(* a and b stop on the same tick, the second one, and c, still in its      *)
(* initial state, is stepped on that tick and times out on the next        *)
C21_Witness ==
    /\ Len(trace) = 3
    /\ sf0.second = timeout(forever(delay(0)), 2)
    /\ trace[1].out.tag = "Running"
    /\ Run(sf0.first.first, trace)[2].tag = "Stopped"
    /\ Run(sf0.first, trace)[1].tag = "Running"
    /\ Run(sf0.first, trace)[2].tag = "Stopped"
    /\ sf0.first.second.run = delay(0)
    /\ trace[2].out = Running(0)
    /\ trace[3].out = Stopped(None)

(***************************************************************************)
(* sequence![t1, ..., tn]                                                  *)
(***************************************************************************)
(* tasks that differ in the input that stops them, as in seq_abunch *)
MacroTasks == {task(identity, map(StopEq(k, EndV(k)))) : k \in 1 .. 3}

(* nothing is expanded yet: trace collects the arguments of the macro *)
Unexpanded == [kind |-> "Unexpanded"]

InitMacro ==
    /\ sf0 = Unexpanded
    /\ sf = Unexpanded
    /\ out = NoOutput
    /\ calls = <<>>
    /\ trace = <<>>

(* one more task expression is written into the macro call *)
WriteTask(t) ==
    /\ sf = Unexpanded
    /\ Len(trace) < MaxArgs
    /\ trace' = Append(trace, t)
    /\ UNCHANGED <<sf0, sf, out, calls>>

(* the macro call is expanded, with or without a trailing comma *)
Expand(trailing) ==
    /\ sf = Unexpanded
    /\ trace # <<>>
    /\ sf' = sequence_macro([tasks |-> trace, trailing |-> trailing])
    /\ sf0' = sf'
    /\ out' = [tag |-> "Expanded", trailing |-> trailing]
    /\ UNCHANGED <<calls, trace>>

NextMacro ==
    \/ \E t \in MacroTasks : WriteTask(t)
    \/ \E trailing \in BOOLEAN : Expand(trailing)

SpecMacro == InitMacro /\ [][NextMacro]_vars

(* the leaves of a tree of SeqTask, from left to right *)
RECURSIVE LeavesOf(_)
LeavesOf(s) ==
    IF s.kind = "SeqTask"
    THEN LeavesOf(s.first) \o LeavesOf(s.second)
    ELSE <<s>>

RECURSIVE DepthOf(_)
DepthOf(s) ==
    IF s.kind = "SeqTask"
    THEN LET l == DepthOf(s.first)
             r == DepthOf(s.second)
         IN  1 + (IF l > r THEN l ELSE r)
    ELSE 0

RECURSIVE Pow2(_)
Pow2(k) == IF k = 0 THEN 1 ELSE 2 * Pow2(k - 1)

(* the least k with n <= 2^k *)
CeilLog2(n) == CHOOSE k \in 0 .. n : n <= Pow2(k) /\ \A j \in 0 .. k - 1 : n > Pow2(j)

(* C22: for n >= 1 tasks t1..tn, with or without a trailing comma,         *)
(* sequence![t1, .., tn] is a binary tree of sequence(..) calls whose      *)
(* leaves, read from left to right, are t1..tn, each once, and whose depth *)
(* is at most the ceiling of log2(n); for n = 1 it is the task itself.     *)
C22_BalancedTree ==
    out.tag = "Expanded" =>
        /\ LeavesOf(sf) = trace
        /\ DepthOf(sf) <= CeilLog2(Len(trace))
        /\ Len(trace) = 1 => sf = trace[1]

(* five tasks and a trailing comma, as in seq_abunch: depth 3, in order *)
C22_Witness ==
    /\ out.tag = "Expanded"
    /\ out.trailing
    /\ Len(trace) = 5
    /\ DepthOf(sf) = 3
    /\ sf.second = trace[5]
    /\ sf.first.first = sequence(trace[1], trace[2])
    /\ trace[1] # trace[2]

(***************************************************************************)
(* sequence(first, second) after the handoff                               *)
(***************************************************************************)
(* one first for each of task, stop_with, timeout and sequence; the stops  *)
(* by input hold on one tick and not on the next                           *)
HandedFirsts ==
    {task(identity, map(StopEq(3, EndV(1)))),
     stop_with(forever(identity), map(StopEq(2, EndV(4)))),
     timeout(task(identity, map(StopEq(3, EndV(1)))), 3),
     sequence(task(identity, map(StopEq(1, EndV(1)))),
              task(delay(0), map(StopEq(2, EndV(2)))))}

HandedSeconds ==
    {forever(delay(0)),
     task(integral, after(3, EndV(3)))}

HandedTerms == {sequence(x[1], x[2]) : x \in HandedFirsts \X HandedSeconds}

InitHanded == Start(HandedTerms)

NextHanded ==
    /\ Len(trace) < SeqSteps
    /\ \E delta \in 1 .. 2, input \in 1 .. 3 : TickLogged(delta, input)

SpecHanded == InitHanded /\ [][NextHanded]_vars

(* C23: on every tick after the one at which first reported Stopped,       *)
(* sequence(first, second) still steps first, which reports Stopped again, *)
(* and returns second's output of that tick: no Running value of first     *)
(* comes back, for first built from task, stop_with, timeout or sequence.  *)
C23_FirstNeverResurfaces ==
    LET n == Len(trace)
        fo == Run(sf0.first, trace)
        before == StoppedAt(fo) \ {n}
    IN  before # {} =>
          LET k == CHOOSE j \in before : \A l \in before : j <= l
              so == Run(sf0.second, SubSeq(trace, k, n))
          IN  /\ HasCall(<<"first">>)
              /\ CallOf(<<"first">>).delta = trace[n].delta
              /\ CallOf(<<"first">>).input = trace[n].input
              /\ CallOf(<<"first">>).out = fo[k]
              /\ HasCall(<<"second">>)
              /\ out = CallOf(<<"second">>).out
              /\ out = so[n - k + 1]

(* first stopped on input 3; two ticks later its stop no longer holds, it  *)
(* is stepped all the same and second's output is returned                 *)
C23_Witness ==
    /\ Len(trace) = 4
    /\ sf0 = sequence(task(identity, map(StopEq(3, EndV(1)))),
                      forever(delay(0)))
    /\ trace[1].out = Running(1)
    /\ trace[2].input = 3
    /\ trace[3].input = 2
    /\ trace[4].input = 1
    /\ CallOf(<<"first">>).input = 1
    /\ CallOf(<<"first">>).out = Stopped(EndV(1))
    /\ out = Running(2)

(***************************************************************************)
(* hold(init) and fold(init, |value, acc| value)                           *)
(***************************************************************************)
(* C24: for every init and every sequence of events, with any deltas,      *)
(* hold(init) gives at every step the output of fold(init, f) with         *)
(* f(value, acc) = value, and holds the value that fold accumulates.       *)
C24_HoldIsNewestFold ==
    LET newest == fold(sf0.held, "Newest")
    IN  /\ OutputsOf(trace) = Run(newest, trace)
        /\ sf.held = StateAfter(newest, trace).value

(* payloads replaced one another with an absent event in between *)
C24_Witness ==
    /\ Len(trace) = 4
    /\ sf0 = hold(0)
    /\ trace[1].input = NoEvent
    /\ trace[2].input = Event(2)
    /\ trace[3].input = NoEvent
    /\ trace[4].input = Event(1)
    /\ OutputsOf(trace) = <<0, 2, 2, 1>>

====
